---- MODULE Spec2Model ----
(***************************************************************************)
(* Authentication coordination core of the DrYouu web site:                *)
(*   AuthManager (src/src/js/auth/auth-manager.js): dispatch, rate limiter *)
(*   and session record;                                                   *)
(*   OAuth2Auth  (src/unnamed/part_001): authorization-code flow with PKCE *)
(*   and CSRF state;                                                       *)
(*   WebAuthnAuth (src/unnamed/part_000): passkey ceremony.                *)
(* The model follows one AuthManager instance with its OAuth2Auth and      *)
(* WebAuthnAuth objects, the localStorage they share and the clock         *)
(* Date.now().  An async method is one step up to its first await and one  *)
(* step from its resumption to its return or throw; the clock may advance  *)
(* while a call is suspended.                                              *)
(***************************************************************************)
EXTENDS Integers, Sequences, FiniteSets, TLC

(* ------------------------------- bounds -------------------------------- *)
\* Date.now() runs over 0..MaxTime.
MaxTime == 2
\* The value of security.rateLimit.maxAttempts in the configurations that set it.
CfgMaxAttempts == 2
\* The value of security.rateLimit.windowMs in the configurations that set it.
CfgWindowMs == 1
\* The value of providers.local.config.tokenExpiry in the configurations that set it.
CfgTokenExpiry == 1
\* How many times OAuth2Auth.authenticate may draw a fresh state value.
MaxOAuthFlows == 2
\* How many authenticate and register calls the UI makes in one behaviour.
MaxCalls == 4
\* The value of providers.webauthn.config.timeout in the configurations that set it.
CfgTimeout == 1
MaxRevisions == 2
MaxFetches == 3
\* How many WebAuthn ceremonies are started in one behaviour of the passkey buttons.
MaxCeremonies == 3

(* -------------------------- program constants --------------------------- *)
\* auth-manager.js:306  maxAttempts || 5
DefaultMaxAttempts == 5
\* auth-manager.js:307  windowMs || 900000
DefaultWindowMs == 900000
\* auth-manager.js:245  tokenExpiry || 86400000
DefaultTokenExpiry == 86400000
\* part_000:109,168  timeout: this.config?.timeout || 60000
DefaultTimeout == 60000
RandomLength == 32
DigestLength == 32

(* ------------------------------ data ----------------------------------- *)
\* JavaScript null / undefined / a missing URL parameter; a present value v is <<v>>.
Null == << >>
Some(v) == <<v>>

\* The method names the UI passes to AuthManager.authenticate.  "google" is an
\* oauth2 provider of the configuration; "github" is one that is not enabled.
Methods == {"local", "webauthn", "google", "github"}
OAuthProviderIds == {"google", "github"}

\* LocalCredentials as the login form passes them ("" is an empty or missing field).
NoCredentials == [present |-> FALSE, username |-> "", password |-> ""]
Creds(u, p) == [present |-> TRUE, username |-> u, password |-> p]
\* authenticate(method, credentials = null): the login form passes credentials
\* with method 'local' only.
CredentialInputs(method) ==
    IF method = "local"
    THEN {NoCredentials, Creds("admin", "secret"), Creds("admin", "wrong")}
    ELSE {NoCredentials}

\* security.rateLimit of the configuration; present = FALSE is a configuration
\* without the section, maxAttempts / windowMs = 0 a missing (falsy) field.
RateLimitConfigs ==
    { [present |-> FALSE, enabled |-> FALSE, maxAttempts |-> 0, windowMs |-> 0],
      [present |-> TRUE, enabled |-> FALSE, maxAttempts |-> CfgMaxAttempts, windowMs |-> CfgWindowMs],
      [present |-> TRUE, enabled |-> TRUE, maxAttempts |-> CfgMaxAttempts, windowMs |-> CfgWindowMs],
      [present |-> TRUE, enabled |-> TRUE, maxAttempts |-> 0, windowMs |-> 0] }

\* Records of localStorage 'webauthn_credentials' left by earlier registrations.
NoStoredCredentials == << >>
OneStoredCredential == << [id |-> "k1", username |-> "admin"] >>

\* A provider descriptor of authentication.providers: its type and enabled flag.
Descriptor(type, enabled) == [type |-> type, enabled |-> enabled]

\* The type of the descriptor the configuration files give each provider id.
TypeOf(id) == IF id \in OAuthProviderIds THEN "oauth2" ELSE id

\* authentication.providers with the descriptors of the ids in `present`, those
\* in `enabled` with enabled: true.
Providers(present, enabled) ==
    [id \in present |-> Descriptor(TypeOf(id), id \in enabled)]

\* The deployments: the providers of the configuration, whether the browser
\* supports WebAuthn, and the credentials registered in it.
Deployments ==
    { [providers |-> Providers(Methods, {"local", "webauthn", "google"}),
       supported |-> TRUE, credentials |-> OneStoredCredential] }

\* The configuration AuthManager.init is given in deployment d with
\* security.rateLimit = rl.
Config(d, rl) ==
    [rateLimit |-> rl,
     providers |-> d.providers,
     tokenExpiry |-> CfgTokenExpiry,
     timeout |-> CfgTimeout,
     demo |-> Some([username |-> "admin", password |-> "secret"])]
\* The credential ids an authenticator may answer the get-assertion prompt with.
AssertionIds == {"k1", "k9"}
\* The ids an authenticator may give a credential it creates, and the usernames
\* the registration form passes.
NewCredentialIds == {"k9"}
RegistrationNames == {"guest"}

VARIABLES
    config,        \* AuthManager.config, fixed by init
    now,           \* Date.now()
    rateLimiter,   \* AuthManager.rateLimiter: Map method -> {count, timestamp}
    session,       \* localStorage[sessionKey]: Null or Some(sessionData)
    inflight,      \* authenticate and register calls suspended at an await
    supported,     \* WebAuthnAuth.isSupported() of this browser
    credentials,   \* localStorage 'webauthn_credentials'
    currentProvider, \* OAuth2Auth.currentProvider
    oauthState,    \* localStorage 'oauth2_state'
    oauthVerifier, \* localStorage 'oauth2_code_verifier'
    oauthProvider, \* localStorage 'oauth2_provider'
    flows,         \* how many state values generateState has drawn
    redirect,      \* the latest value assigned to window.location.href
    calls,         \* how many authenticate and register calls the UI has made
    failed,        \* history: per method, its calls that failed since its last call that returned
    window,        \* history: per method, the window of section 4.4 its latest failures fall in
    superseded,    \* history: states of completed authorizations that a later one replaced
    latest,        \* history: user and time of the most recent successful authenticate
    last,          \* observation: what the latest step did
    loader         \* the ConfigLoader of the page and the files it fetches

vars == <<config, now, rateLimiter, session, inflight, supported, credentials,
          currentProvider, oauthState, oauthVerifier, oauthProvider,
          flows, redirect, calls, failed, window, superseded, latest, last,
          loader>>

oauthVars == <<currentProvider, oauthState, oauthVerifier, oauthProvider,
               flows, redirect>>

\* The messages of the errors the properties name.
TooManyAttempts == "Too many attempts. Please try again later."
CsrfMismatch == "Invalid state parameter - possible CSRF attack"
NoCredentialsRegistered == "No credentials registered. Please register first."

(* ------------------------------ Map helpers ----------------------------- *)
EmptyMap == [k \in {} |-> 0]
MapHas(map, k) == k \in DOMAIN map
MapSet(map, k, v) == [x \in (DOMAIN map) \cup {k} |-> IF x = k THEN v ELSE map[x]]
MapDelete(map, k) == [x \in (DOMAIN map) \ {k} |-> map[x]]

(* ------------------------------ localStorage ---------------------------- *)
\* A setItem that leaves an item that is already stored as it is.
setItem_KeepsExisting(item, value) == IF item # Null THEN item ELSE Some(value)

\* localStorage.setItem(key, value) on a key that holds `item`: the item it leaves.
setItem(item, value) == Some(value)

\* A removeItem that leaves the item in the storage.
removeItem_Keeps(item) == item

\* localStorage.removeItem(key) on a key that holds `item`: the item it leaves.
removeItem(item) == Null

(* ------------------------------ navigation ------------------------------ *)
\* The values assigned to window.location.href: the authorization URL that
\* buildAuthUrl makes for a provider, or a page of the site.
AuthorizationUrl(provider, state, challenge) ==
    Some([url |-> "authUrl", provider |-> provider, state |-> state,
          challenge |-> challenge])
SitePage(path) == Some([url |-> path, provider |-> "", state |-> 0, challenge |-> 0])

(* ------------------------------ rate limiter ---------------------------- *)
\* this.config.security?.rateLimit?.enabled
RateLimitEnabled == config.rateLimit.present /\ config.rateLimit.enabled

\* setupRateLimiting: this.maxAttempts = rateLimit.maxAttempts || 5
maxAttempts ==
    IF config.rateLimit.maxAttempts = 0 THEN DefaultMaxAttempts
    ELSE config.rateLimit.maxAttempts

\* setupRateLimiting: this.windowMs = rateLimit.windowMs || 900000
windowMs ==
    IF config.rateLimit.windowMs = 0 THEN DefaultWindowMs
    ELSE config.rateLimit.windowMs

\* this.rateLimiter.get(key) || { count: 0, timestamp: Date.now() }
Attempts(rl, method, t) ==
    IF MapHas(rl, method) THEN rl[method] ELSE [count |-> 0, timestamp |-> t]

\* A checkRateLimit that counts the call it rejects as an attempt.
checkRateLimit_CountsRejected(rl, method, t) ==
    IF ~RateLimitEnabled THEN [allowed |-> TRUE, rl |-> rl]
    ELSE LET attempts == Attempts(rl, method, t)
         IN  IF t - attempts.timestamp > windowMs
             THEN [allowed |-> TRUE, rl |-> MapDelete(rl, method)]
             ELSE IF attempts.count < maxAttempts
             THEN [allowed |-> TRUE, rl |-> rl]
             ELSE [allowed |-> FALSE,
                   rl |-> MapSet(rl, method, [count |-> attempts.count + 1,
                                              timestamp |-> t])]

\* A checkRateLimit that admits the call after the window but keeps the entry.
checkRateLimit_KeepsExpired(rl, method, t) ==
    IF ~RateLimitEnabled THEN [allowed |-> TRUE, rl |-> rl]
    ELSE LET attempts == Attempts(rl, method, t)
         IN  IF t - attempts.timestamp > windowMs
             THEN [allowed |-> TRUE, rl |-> rl]
             ELSE [allowed |-> attempts.count < maxAttempts, rl |-> rl]

\* checkRateLimit(method) at time t: the answer and the map it leaves.
checkRateLimit(rl, method, t) ==
    IF ~RateLimitEnabled THEN [allowed |-> TRUE, rl |-> rl]
    ELSE LET attempts == Attempts(rl, method, t)
         IN  IF t - attempts.timestamp > windowMs
             THEN [allowed |-> TRUE, rl |-> MapDelete(rl, method)]
             ELSE [allowed |-> attempts.count < maxAttempts, rl |-> rl]

\* An incrementRateLimit that stores count 1 instead of counting up.
incrementRateLimit_Restart(rl, method, t) ==
    IF ~RateLimitEnabled THEN rl
    ELSE LET attempts == Attempts(rl, method, t)
         IN  MapSet(rl, method, [count |-> 1, timestamp |-> attempts.timestamp])

\* An incrementRateLimit without the test of rateLimit.enabled.
incrementRateLimit_Unguarded(rl, method, t) ==
    LET attempts == Attempts(rl, method, t)
    IN  MapSet(rl, method,
               [count |-> attempts.count + 1, timestamp |-> attempts.timestamp])

\* incrementRateLimit(method) at time t: the map it leaves.
incrementRateLimit(rl, method, t) ==
    IF ~RateLimitEnabled THEN rl
    ELSE LET attempts == Attempts(rl, method, t)
         IN  MapSet(rl, method,
                    [count |-> attempts.count + 1, timestamp |-> attempts.timestamp])

\* A resetRateLimit that empties the whole map.
resetRateLimit_ClearsAll(rl, method) == EmptyMap

\* A resetRateLimit that leaves the entry in the map.
resetRateLimit_Keep(rl, method) == rl

\* resetRateLimit(method): the map it leaves.
resetRateLimit(rl, method) == MapDelete(rl, method)

(* ------------------------------ strategies ------------------------------ *)
\* What a strategy hands back to AuthManager.authenticate: a thrown Error with
\* its message, or a result object {success, user}.
Threw(msg) == [threw |-> TRUE, error |-> msg, success |-> FALSE, user |-> Null]
Returned(ok, user) == [threw |-> FALSE, error |-> "", success |-> ok, user |-> user]
\* The result of WebAuthnAuth.authenticate for the assertion of credential id:
\* { success: true, credential, username }
Asserted(id, username) ==
    [threw |-> FALSE, error |-> "", success |-> TRUE, user |-> Some(username),
     id |-> id]

\* An authenticateLocal that compares the password only.
authenticateLocal_PasswordOnly(c) ==
    IF ~c.present \/ c.username = "" \/ c.password = ""
    THEN Threw("Username and password required")
    ELSE IF config.demo # Null /\ c.password = config.demo[1].password
         THEN Returned(TRUE, Some(c.username))
         ELSE Threw("Invalid username or password")

\* AuthManager.authenticateLocal(credentials)
authenticateLocal(c) ==
    IF ~c.present \/ c.username = "" \/ c.password = ""
    THEN Threw("Username and password required")
    ELSE IF /\ config.demo # Null
            /\ c.username = config.demo[1].username
            /\ c.password = config.demo[1].password
         THEN Returned(TRUE, Some(c.username))
         ELSE Threw("Invalid username or password")

\* this.config.providers.<id>?.enabled
IsEnabled(id) == id \in DOMAIN config.providers /\ config.providers[id].enabled

\* An OAuth2Auth.init that registers the oauth2 descriptors without testing enabled.
providers_IgnoresEnabled ==
    {id \in DOMAIN config.providers : config.providers[id].type = "oauth2"}

\* OAuth2Auth.init: the ids registered in this.providers are those of the
\* descriptors with provider.enabled && provider.type === 'oauth2'.
providers ==
    {id \in DOMAIN config.providers :
        config.providers[id].enabled /\ config.providers[id].type = "oauth2"}

\* AuthManager.init: this.oauth2 is constructed only if some oauth2 provider is enabled.
HasOAuth2 ==
    \E id \in DOMAIN config.providers :
        config.providers[id].type = "oauth2" /\ config.providers[id].enabled

\* AuthManager.init: this.webauthn is constructed only if webauthn is enabled.
HasWebAuthn == IsEnabled("webauthn")

\* WebAuthnAuth.authenticate after the prompt resolved with an assertion of this id:
\* username: matchedCredential?.username || 'unknown'
MatchedUsername(creds, id) ==
    IF \E i \in 1..Len(creds) : creds[i].id = id
    THEN LET i == CHOOSE j \in 1..Len(creds) :
                      /\ creds[j].id = id
                      /\ \A k \in 1..(j - 1) : creds[k].id # id
         IN  creds[i].username
    ELSE "unknown"

(* ------------------------------ session --------------------------------- *)
\* createSession: expiry = Date.now() + (tokenExpiry || 86400000)
SessionLifetime ==
    IF config.tokenExpiry = 0 THEN DefaultTokenExpiry ELSE config.tokenExpiry

\* A createSession that writes only when no session item is stored.
createSession_KeepsExisting(user, t) ==
    IF session # Null THEN session
    ELSE Some([user |-> user, loginTime |-> t, expiry |-> t + SessionLifetime])

\* AuthManager.createSession(user) at time t: the localStorage item it writes.
createSession(user, t) ==
    Some([user |-> user, loginTime |-> t, expiry |-> t + SessionLifetime])

(* ------------------------------ observation ----------------------------- *)
\* What the latest step did; every action sets it.
\*   op, method, credentials: the operation and its arguments;
\*   outcome, error: "threw" with the Error's message, or how it returned;
\*   user: the user of the strategy's result;
\*   ran: the authentication strategy was invoked;
\*   writes: localStorage.setItem(sessionKey, ...) calls made;
\*   exchanges, userInfos: exchangeCodeForToken / getUserInfo calls made;
\*   params: the callback URL's parameters;
\*   found: the session item the operation found stored (for getSession, what
\*   it returned);
\*   valid, listed: what checkSession and getAvailableMethods / getProviders
\*   returned;
\*   challenge: the challenge generateChallenge drew in this step, or that of
\*   the ceremony this step ended; prompts: navigator.credentials.get / create
\*   calls made; age: how long the ceremony this step ended was pending.
NoParams == [code |-> Null, state |-> Null, error |-> Null]
Obs == [op |-> "init", method |-> "", outcome |-> "", error |-> "", user |-> Null,
        ran |-> FALSE, writes |-> 0, exchanges |-> 0, userInfos |-> 0,
        credentials |-> NoCredentials, params |-> NoParams,
        valid |-> FALSE, found |-> Null, listed |-> {},
        challenge |-> Null, prompts |-> 0, age |-> 0,
        page |-> "", rendered |-> FALSE, name |-> "", fetched |-> 0,
        assertion |-> ""]

\* History kept for the lockout properties.
\*   failed[m]: how many calls of m failed since the last call of m that returned
\*   (counted up to maxAttempts).
\*   window[m]: the window the latest consecutive failures of m fall in, as
\*   section 4.4 of the specification counts them: a failure reported when no
\*   window is open, or more than windowMs after the window opened, opens the
\*   window (n = 1); any other failure is one more in the open window; a call
\*   that returns closes it (n = 0).
Min(a, b) == IF a < b THEN a ELSE b
NoWindow == [n |-> 0, opened |-> 0]
FailureInWindow(w, t) ==
    IF w.n = 0 \/ t - w.opened > windowMs
    THEN [n |-> 1, opened |-> t]
    ELSE [n |-> Min(w.n + 1, maxAttempts), opened |-> w.opened]

(* ------------------------------ AuthManager.authenticate ---------------- *)
\* A suspended call of authenticate: where it waits and what it carries.
\* stored is the list getStoredCredentials() returned to
\* WebAuthnAuth.authenticate before the prompt (part_000 line 150).
Call(method, c, stage, result, flow) ==
    [method |-> method, credentials |-> c, began |-> now, stage |-> stage,
     result |-> result, flow |-> flow,
     stored |-> IF stage = "prompt" THEN credentials ELSE NoStoredCredentials]

\* The synchronous part of the dispatch (lines 110-123) up to the first await
\* that waits for the environment.
\*   stage "settled": the strategy's promise is already settled with `result`;
\*   stage "prompt":  WebAuthnAuth.authenticate waits in navigator.credentials.get
\*                    with the challenge it drew (named by the call's ordinal);
\*   stage "pkce":    OAuth2Auth.authenticate waits in generatePKCE, state stored.
\* A WebAuthnAuth.authenticate that draws the challenge and opens the prompt
\* without looking at the stored credentials.
Dispatch_ChallengeFirst(method, c) ==
    CASE method = "local" ->
            Call(method, c, "settled", authenticateLocal(c), 0)
      [] method = "webauthn" ->
            IF ~HasWebAuthn
            THEN Call(method, c, "settled", Threw("WebAuthn is not available"), 0)
            ELSE IF ~supported
            THEN Call(method, c, "settled", Threw("WebAuthn is not supported"), 0)
            ELSE Call(method, c, "prompt", Returned(FALSE, Null), calls + 1)
      [] OTHER ->
            IF ~HasOAuth2
            THEN Call(method, c, "settled", Threw("OAuth2 is not available"), 0)
            ELSE IF method \notin providers
            THEN Call(method, c, "settled", Threw("Provider not found"), 0)
            ELSE Call(method, c, "pkce", Returned(FALSE, Null), flows + 1)

\* An OAuth2Auth.authenticate that starts the authorization without looking
\* the provider up in this.providers.
Dispatch_UnknownProviderStarts(method, c) ==
    CASE method = "local" ->
            Call(method, c, "settled", authenticateLocal(c), 0)
      [] method = "webauthn" ->
            IF ~HasWebAuthn
            THEN Call(method, c, "settled", Threw("WebAuthn is not available"), 0)
            ELSE IF ~supported
            THEN Call(method, c, "settled", Threw("WebAuthn is not supported"), 0)
            ELSE IF Len(credentials) = 0
            THEN Call(method, c, "settled", Threw(NoCredentialsRegistered), 0)
            ELSE Call(method, c, "prompt", Returned(FALSE, Null), calls + 1)
      [] OTHER ->
            IF ~HasOAuth2
            THEN Call(method, c, "settled", Threw("OAuth2 is not available"), 0)
            ELSE Call(method, c, "pkce", Returned(FALSE, Null), flows + 1)

Dispatch(method, c) ==
    CASE method = "local" ->
            Call(method, c, "settled", authenticateLocal(c), 0)
      [] method = "webauthn" ->
            IF ~HasWebAuthn
            THEN Call(method, c, "settled", Threw("WebAuthn is not available"), 0)
            ELSE IF ~supported
            THEN Call(method, c, "settled", Threw("WebAuthn is not supported"), 0)
            ELSE IF Len(credentials) = 0
            THEN Call(method, c, "settled", Threw(NoCredentialsRegistered), 0)
            ELSE Call(method, c, "prompt", Returned(FALSE, Null), calls + 1)
      [] OTHER ->
            IF ~HasOAuth2
            THEN Call(method, c, "settled", Threw("OAuth2 is not available"), 0)
            ELSE IF method \notin providers
            THEN Call(method, c, "settled", Threw("Provider not found"), 0)
            ELSE Call(method, c, "pkce", Returned(FALSE, Null), flows + 1)

\* authenticate(method, credentials), lines 101-123: the rate-limit check and the
\* dispatch up to the strategy's await.
AuthBegin(method, c) ==
    LET chk == checkRateLimit(rateLimiter, method, now)
        call == Dispatch(method, c)
    IN  /\ calls < MaxCalls
        /\ calls' = calls + 1
        /\ rateLimiter' = chk.rl
        /\ IF ~chk.allowed
           THEN /\ last' = [Obs EXCEPT !.op = "authenticate", !.method = method,
                                       !.outcome = "threw",
                                       !.error = TooManyAttempts,
                                       !.credentials = c]
                /\ UNCHANGED <<inflight, oauthVars>>
           ELSE /\ call.stage = "pkce" => flows < MaxOAuthFlows
                /\ inflight' = Append(inflight, call)
                /\ last' = [Obs EXCEPT !.op = "begin", !.method = method,
                                       !.ran = TRUE, !.credentials = c,
                                       !.challenge = IF call.stage = "prompt"
                                                     THEN Some(call.flow) ELSE Null,
                                       !.prompts = IF call.stage = "prompt"
                                                   THEN 1 ELSE 0]
                /\ IF call.stage = "pkce"
                   THEN \* OAuth2Auth.authenticate lines 77-81
                        /\ currentProvider' = Some(method)
                        /\ flows' = flows + 1
                        /\ oauthState' = setItem(oauthState, flows + 1)
                        /\ UNCHANGED <<oauthVerifier, oauthProvider, redirect>>
                   ELSE UNCHANGED oauthVars
        /\ UNCHANGED <<config, loader, now, session, supported, credentials, failed, window,
                       superseded, latest>>

\* A tail of authenticate that creates the session without testing result.success.
Settle_IgnoresSuccess(rl, sess, call, res, t) ==
    IF res.threw
    THEN [rl |-> incrementRateLimit(rl, call.method, t), session |-> sess, writes |-> 0]
    ELSE LET user == IF res.user # Null THEN res.user[1]
                     ELSE call.credentials.username
         IN  [rl |-> resetRateLimit(rl, call.method),
              session |-> createSession(user, t),
              writes |-> 1]

\* authenticate lines 125-138 once the strategy settled with res at time t:
\* the rate-limiter map and session item it leaves, and its session writes.
Settle(rl, sess, call, res, t) ==
    IF res.threw
    THEN [rl |-> incrementRateLimit(rl, call.method, t), session |-> sess, writes |-> 0]
    ELSE LET user == IF res.user # Null THEN res.user[1]
                     ELSE call.credentials.username
         IN  [rl |-> resetRateLimit(rl, call.method),
              session |-> IF res.success THEN createSession(user, t) ELSE sess,
              writes |-> IF res.success THEN 1 ELSE 0]

\* The outcomes the environment may give a suspended strategy.
\*   prompt: the authenticator returns an assertion, or the prompt is dismissed;
\*   pkce:   crypto.subtle.digest resolves, or crypto throws (no secure context).
StrategyResults(call) ==
    CASE call.stage = "settled" -> {call.result}
      [] call.stage = "prompt" ->
            {Threw("NotAllowedError")} \cup
            {Asserted(id, MatchedUsername(call.stored, id)) : id \in AssertionIds}
      [] OTHER -> {Threw("PKCE generation failed"), Returned(FALSE, Null)}

\* The resumption of the i-th suspended call: the rest of the strategy, then
\* lines 125-138 of authenticate.
AuthEnd(i) ==
    /\ i \in 1..Len(inflight)
    /\ inflight[i].stage # "create"
    /\ LET call == inflight[i]
       IN \E res \in StrategyResults(call) :
            LET fin == Settle(rateLimiter, session, call, res, now)
            IN  /\ rateLimiter' = fin.rl
                /\ session' = fin.session
                /\ inflight' = [j \in 1..(Len(inflight) - 1) |->
                                   IF j < i THEN inflight[j] ELSE inflight[j + 1]]
                /\ IF call.stage = "pkce" /\ ~res.threw
                   THEN \* OAuth2Auth.authenticate lines 85-94
                        /\ oauthVerifier' = setItem(oauthVerifier, call.flow)
                        /\ oauthProvider' = setItem(oauthProvider, call.method)
                        /\ redirect' = AuthorizationUrl(call.method, call.flow,
                                                        call.flow)
                        /\ superseded' = IF oauthVerifier # Null
                                          THEN superseded \cup {oauthVerifier[1]}
                                          ELSE superseded
                        /\ UNCHANGED <<currentProvider, oauthState, flows>>
                   ELSE UNCHANGED <<oauthVars, superseded>>
                /\ latest' = IF fin.writes > 0
                             THEN Some([user |-> IF res.user # Null THEN res.user[1]
                                                 ELSE call.credentials.username,
                                        time |-> now])
                             ELSE latest
                /\ failed' = [failed EXCEPT ![call.method] =
                                IF res.threw THEN Min(@ + 1, maxAttempts) ELSE 0]
                /\ window' = [window EXCEPT ![call.method] =
                                IF res.threw THEN FailureInWindow(@, now)
                                ELSE NoWindow]
                /\ last' = [Obs EXCEPT !.op = "authenticate", !.method = call.method,
                                       !.outcome = IF res.threw THEN "threw"
                                                   ELSE IF res.success THEN "success"
                                                   ELSE "returned",
                                       !.error = res.error,
                                       !.user = res.user,
                                       !.ran = TRUE,
                                       !.writes = fin.writes,
                                       !.challenge = IF call.stage = "prompt"
                                                     THEN Some(call.flow) ELSE Null,
                                       !.age = IF call.stage = "prompt"
                                               THEN now - call.began ELSE 0,
                                       !.found = IF fin.writes > 0 THEN session ELSE Null,
                                       !.assertion = IF "id" \in DOMAIN res
                                                     THEN res.id ELSE "",
                                       !.credentials = call.credentials]
    /\ UNCHANGED <<config, loader, now, supported, credentials, calls>>

(* ------------------------------ WebAuthnAuth.register ------------------ *)
\* timeout: this.config?.timeout || 60000
ceremonyTimeout == IF config.timeout = 0 THEN DefaultTimeout ELSE config.timeout

\* storeCredential(username, credential): the 'webauthn_credentials' list it leaves.
storeCredential(creds, username, id) ==
    Append(creds, [id |-> id, username |-> username])

\* AuthManager.registerWebAuthn(username) up to the await of
\* navigator.credentials.create in WebAuthnAuth.register (lines 76-116).
RegisterBegin(username) ==
    LET call == Call("register", Creds(username, ""), "create",
                     Returned(FALSE, Null), calls + 1)
        refusal == IF ~HasWebAuthn THEN "WebAuthn is not available"
                   ELSE IF ~supported THEN "WebAuthn is not supported"
                   ELSE ""
    IN  /\ calls < MaxCalls
        /\ calls' = calls + 1
        /\ IF refusal # ""
           THEN /\ last' = [Obs EXCEPT !.op = "register", !.outcome = "threw",
                                       !.error = refusal, !.user = Some(username)]
                /\ UNCHANGED inflight
           ELSE /\ inflight' = Append(inflight, call)
                /\ last' = [Obs EXCEPT !.op = "registerBegin",
                                       !.user = Some(username),
                                       !.challenge = Some(call.flow),
                                       !.prompts = 1]
        /\ UNCHANGED <<config, loader, now, rateLimiter, session, supported, credentials,
                       oauthVars, failed, window, superseded, latest>>

\* The resumption of the i-th suspended call, a register call: the platform
\* created a credential (lines 118-132) or the prompt was dismissed.
RegisterEnd(i) ==
    /\ i \in 1..Len(inflight)
    /\ inflight[i].stage = "create"
    /\ LET call == inflight[i]
           username == call.credentials.username
       IN  /\ inflight' = [j \in 1..(Len(inflight) - 1) |->
                              IF j < i THEN inflight[j] ELSE inflight[j + 1]]
           /\ \/ /\ UNCHANGED credentials
                 /\ last' = [Obs EXCEPT !.op = "register", !.outcome = "threw",
                                        !.error = "NotAllowedError",
                                        !.user = Some(username),
                                        !.challenge = Some(call.flow),
                                        !.age = now - call.began]
              \/ \E id \in NewCredentialIds :
                    /\ credentials' = storeCredential(credentials, username, id)
                    /\ last' = [Obs EXCEPT !.op = "register", !.outcome = "success",
                                           !.user = Some(username),
                                           !.challenge = Some(call.flow),
                                           !.age = now - call.began]
    /\ UNCHANGED <<config, loader, now, rateLimiter, session, supported, oauthVars, calls,
                   failed, window, superseded, latest>>

\* WebAuthnAuth.clearCredentials()
ClearCredentials ==
    /\ credentials' = NoStoredCredentials
    /\ last' = [Obs EXCEPT !.op = "clearCredentials", !.outcome = "returned"]
    /\ UNCHANGED <<config, loader, now, rateLimiter, session, inflight, supported,
                   oauthVars, calls, failed, window, superseded, latest>>

(* ------------------------------ OAuth2Auth.handleCallback -------------- *)
\* The query parameters the callback page may be loaded with.  State value 0 is
\* one that generateState never issued.
CallbackParams ==
    [code : {Null, Some("code")},
     state : {Null} \cup {Some(n) : n \in 0..MaxOAuthFlows},
     error : {Null, Some("access_denied")}]

\* A handleCallback that takes the provider name from this.currentProvider.
StoredProvider_InMemory == currentProvider

\* handleCallback line 147: localStorage.getItem('oauth2_provider')
StoredProvider == oauthProvider

\* A handleCallback that compares the state before it looks at the error parameter.
CallbackRejection_StateFirst(params, storedState, storedProvider) ==
    IF params.state # storedState
    THEN CsrfMismatch
    ELSE IF params.error # Null
    THEN "OAuth2 error"
    ELSE IF storedProvider = Null \/ storedProvider[1] \notin providers
    THEN "Provider not found"
    ELSE ""

\* handleCallback lines 130-152: the checks made before the token exchange, in
\* the code's order; "" when the callback passes them all.
CallbackRejection(params, storedState, storedProvider) ==
    IF params.error # Null
    THEN "OAuth2 error"
    ELSE IF params.state # storedState
    THEN CsrfMismatch
    ELSE IF storedProvider = Null \/ storedProvider[1] \notin providers
    THEN "Provider not found"
    ELSE ""

\* The items of localStorage the three modules keep.
LocalStorage ==
    [session |-> session, credentials |-> credentials, oauthState |-> oauthState,
     oauthVerifier |-> oauthVerifier, oauthProvider |-> oauthProvider]

\* A clean-up that empties localStorage.
CallbackCleanUp_ClearsStorage(ls) ==
    [session |-> Null, credentials |-> NoStoredCredentials, oauthState |-> Null,
     oauthVerifier |-> Null, oauthProvider |-> Null]

\* handleCallback lines 162-165: clearStoredState, clearCodeVerifier and
\* removeItem('oauth2_provider') on the storage ls.
CallbackCleanUp(ls) ==
    [ls EXCEPT !.oauthState = removeItem(@),
               !.oauthVerifier = removeItem(@),
               !.oauthProvider = removeItem(@)]

\* OAuth2Auth.handleCallback() on a page loaded with these query parameters.
\* exchangeCodeForToken and getUserInfo are the demo implementations, which
\* always resolve; the clean-up (lines 163-165) follows them.
HandleCallback(params) ==
    LET rejection == CallbackRejection(params, oauthState, StoredProvider)
        ls == CallbackCleanUp(LocalStorage)
    IN  /\ IF rejection # ""
           THEN /\ last' = [Obs EXCEPT !.op = "handleCallback", !.outcome = "threw",
                                       !.error = rejection, !.params = params]
                /\ UNCHANGED <<oauthState, oauthVerifier, oauthProvider, session,
                               credentials>>
           ELSE /\ last' = [Obs EXCEPT !.op = "handleCallback", !.outcome = "success",
                                       !.method = StoredProvider[1],
                                       !.exchanges = 1, !.userInfos = 1,
                                       !.params = params]
                /\ oauthState' = ls.oauthState
                /\ oauthVerifier' = ls.oauthVerifier
                /\ oauthProvider' = ls.oauthProvider
                /\ session' = ls.session
                /\ credentials' = ls.credentials
        /\ UNCHANGED <<config, loader, now, rateLimiter, inflight, supported,
                       currentProvider, flows, redirect, calls,
                       failed, window, superseded, latest>>

(* ------------------------------ session reads and logout --------------- *)
\* AuthManager.logout(): removes the session item and sends the window to the
\* home page.
Logout ==
    /\ session' = removeItem(session)
    /\ redirect' = SitePage("/index.html")
    /\ last' = [Obs EXCEPT !.op = "logout", !.outcome = "returned",
                           !.found = session]
    /\ UNCHANGED <<config, loader, now, rateLimiter, inflight, supported, credentials,
                   currentProvider, oauthState, oauthVerifier, oauthProvider,
                   flows, calls, failed, window, superseded, latest>>

\* A stored item whose text JSON.parse rejects, and the test that JSON.parse
\* returns for an item.
Unparseable == [text |-> "{corrupt"]
Parses(item) == "text" \notin DOMAIN item

\* checkSession() at time t on the stored item: what it returns, and whether it
\* logged out: it found the session expired (sessionData.expiry < now), or
\* JSON.parse threw and the catch block ran.
checkSession(sess, t) ==
    IF sess = Null THEN [valid |-> FALSE, expired |-> FALSE]
    ELSE IF ~Parses(sess[1]) THEN [valid |-> FALSE, expired |-> TRUE]
    ELSE IF sess[1].expiry < t THEN [valid |-> FALSE, expired |-> TRUE]
    ELSE [valid |-> TRUE, expired |-> FALSE]

\* AuthManager.checkSession(), with the logout() it calls on an expired session.
CheckSession ==
    LET r == checkSession(session, now)
    IN  /\ IF r.expired
           THEN /\ session' = removeItem(session)
                /\ redirect' = SitePage("/index.html")
           ELSE UNCHANGED <<session, redirect>>
        /\ last' = [Obs EXCEPT !.op = "checkSession", !.outcome = "returned",
                               !.valid = r.valid, !.found = session]
        /\ UNCHANGED <<config, loader, now, rateLimiter, inflight, supported, credentials,
                       currentProvider, oauthState, oauthVerifier, oauthProvider,
                       flows, calls, failed, window, superseded, latest>>

\* A getSession that hands out the stored item as it is.
getSession_RawItem(sess) == sess

\* getSession(): the parsed item, or null when there is none or JSON.parse
\* throws.
getSession(sess) == IF sess = Null \/ ~Parses(sess[1]) THEN Null ELSE sess

\* Something other than createSession writes the session item: a text that is
\* not JSON.
CorruptSession ==
    /\ session' = setItem(session, Unparseable)
    /\ last' = [Obs EXCEPT !.op = "corruptSession", !.found = session]
    /\ UNCHANGED <<config, loader, now, rateLimiter, inflight, supported, credentials,
                   oauthVars, calls, failed, window, superseded, latest>>

\* AuthManager.getSession()
GetSession ==
    /\ last' = [Obs EXCEPT !.op = "getSession", !.outcome = "returned",
                           !.found = getSession(session)]
    /\ UNCHANGED <<config, loader, now, rateLimiter, session, inflight, supported,
                   credentials, oauthVars, calls, failed, window, superseded, latest>>

(* ------------------------------ private pages -------------------------- *)
\* The pages App.initializePage protects.
PrivatePages == {"dashboard", "wiki", "links"}

\* What the page initialiser puts on the page, given the session item it
\* finds: initializeWikiPage and initializeLinksPage render from the loaded
\* configuration and read no session; initializeDashboardPage returns before
\* it writes anything when getSession() is null.
initializePrivatePage(page, sess) ==
    IF page = "dashboard" THEN getSession(sess) # Null ELSE TRUE

\* App.initializePage() on a private page: protectPage(), then the page's
\* initialiser.  protectPage only assigns window.location.href, so the
\* initialiser runs in the same task whatever checkSession answered.
LoadPrivatePage(page) ==
    LET r == checkSession(session, now)
        sess == IF r.expired THEN removeItem(session) ELSE session
    IN  /\ session' = sess
        /\ redirect' = IF r.valid THEN redirect ELSE SitePage("/public/login.html")
        /\ last' = [Obs EXCEPT !.op = "loadPrivatePage", !.outcome = "returned",
                               !.page = page, !.valid = r.valid, !.found = session,
                               !.rendered = initializePrivatePage(page, sess)]
        /\ UNCHANGED <<config, loader, now, rateLimiter, inflight, supported, credentials,
                       currentProvider, oauthState, oauthVerifier, oauthProvider,
                       flows, calls, failed, window, superseded, latest>>

(* ------------------------------ method listings ------------------------ *)
\* OAuth2Auth.getProviders(): the ids of the registered providers.
getProviders == providers

\* OAuth2Auth.getProviders() on the OAuth2Auth object initialised with the
\* configuration.
GetProviders ==
    /\ last' = [Obs EXCEPT !.op = "getProviders", !.outcome = "returned",
                           !.listed = getProviders]
    /\ UNCHANGED <<config, loader, now, rateLimiter, session, inflight, supported,
                   credentials, oauthVars, calls, failed, window, superseded, latest>>

\* A getAvailableMethods that lists webauthn without asking isSupported().
getAvailableMethods_NoProbe ==
    (IF IsEnabled("local") THEN {"local"} ELSE {})
    \cup (IF IsEnabled("webauthn") THEN {"webauthn"} ELSE {})
    \cup (IF HasOAuth2 THEN getProviders ELSE {})

\* AuthManager.getAvailableMethods(): the ids of the methods it lists.
\*   local:    this.config.providers.local?.enabled
\*   webauthn: this.config.providers.webauthn?.enabled && this.webauthn?.isSupported()
\*   oauth2:   if this.oauth2, every provider of this.oauth2.getProviders()
getAvailableMethods ==
    (IF IsEnabled("local") THEN {"local"} ELSE {})
    \cup (IF IsEnabled("webauthn") /\ HasWebAuthn /\ supported
          THEN {"webauthn"} ELSE {})
    \cup (IF HasOAuth2 THEN getProviders ELSE {})

\* AuthManager.getAvailableMethods()
GetAvailableMethods ==
    /\ last' = [Obs EXCEPT !.op = "getAvailableMethods", !.outcome = "returned",
                           !.listed = getAvailableMethods]
    /\ UNCHANGED <<config, loader, now, rateLimiter, session, inflight, supported,
                   credentials, oauthVars, calls, failed, window, superseded, latest>>

(* ------------------------------ page load ------------------------------- *)
\* The browser loads a page of the site: the objects of the page before
\* (AuthManager with its rateLimiter map, OAuth2Auth with currentProvider, the
\* calls suspended in them) are gone and new ones are constructed and
\* initialised with the same configuration; localStorage stays.
PageLoad ==
    /\ rateLimiter' = EmptyMap
    /\ currentProvider' = Null
    /\ inflight' = << >>
    /\ last' = [Obs EXCEPT !.op = "pageLoad"]
    /\ UNCHANGED <<config, loader, now, session, supported, credentials, oauthState,
                   oauthVerifier, oauthProvider, flows, redirect, calls, failed,
                   window, superseded, latest>>

\* Date.now() advances.
Tick ==
    /\ now < MaxTime
    /\ now' = now + 1
    /\ last' = [Obs EXCEPT !.op = "tick"]
    /\ UNCHANGED <<config, loader, rateLimiter, session, inflight, supported, credentials,
                   oauthVars, calls, failed, window, superseded, latest>>

(* ------------------------------ OAuth2Auth: the values ------------------ *)
\* Strings are sequences of characters.
\* crypto.getRandomValues(new Uint8Array(32)): some of the arrays it may draw.
ByteSamples == {0, 10, 171, 255}
RandomArrays ==
    { [i \in 1..RandomLength |-> IF i % 2 = 1 THEN a ELSE b] :
        a \in ByteSamples, b \in ByteSamples }

HexDigits ==
    <<"0", "1", "2", "3", "4", "5", "6", "7", "8", "9", "a", "b", "c", "d", "e", "f">>

\* Number.prototype.toString(16) of a byte
toString16(byte) ==
    IF byte < 16 THEN <<HexDigits[byte + 1]>>
    ELSE <<HexDigits[(byte \div 16) + 1], HexDigits[(byte % 16) + 1]>>

\* String.prototype.padStart(targetLength, padString) with a one-character pad
RECURSIVE padStart(_, _, _)
padStart(str, targetLength, pad) ==
    IF Len(str) >= targetLength THEN str
    ELSE padStart(<<pad>> \o str, targetLength, pad)

\* Array.prototype.join('') of an array of strings
RECURSIVE join(_)
join(strs) == IF strs = << >> THEN << >> ELSE Head(strs) \o join(Tail(strs))

\* The hexadecimal form of a byte without the padding.
hexByte_NoPad(byte) == toString16(byte)

\* byte => byte.toString(16).padStart(2, '0')
hexByte(byte) == padStart(toString16(byte), 2, "0")

\* Array.from(array, byte => ...).join('')
toHex(array) == join([i \in 1..Len(array) |-> hexByte(array[i])])

\* generateState(): the hexadecimal form of the random array.
generateState(array) == toHex(array)

\* TextEncoder.encode of a string of hexadecimal digits: the ASCII codes.
charCode(c) ==
    LET k == CHOOSE k \in 1..Len(HexDigits) : HexDigits[k] = c
    IN  IF k <= 10 THEN 47 + k ELSE 86 + k
encode(str) == [i \in 1..Len(str) |-> charCode(str[i])]

\* crypto.subtle.digest('SHA-256', data): the hash is not computed here; in its
\* place stands a fixed function of the whole message onto DigestLength bytes.
RECURSIVE ByteSum(_)
ByteSum(data) == IF data = << >> THEN 0 ELSE Head(data) + ByteSum(Tail(data))
digest(data) ==
    [i \in 1..DigestLength |->
        (ByteSum(data) * i + data[((i * 7) % Len(data)) + 1] * 131
         + data[((i * 3) % Len(data)) + 1] * i + i * i * 7) % 256]

Base64Digits ==
    <<"A", "B", "C", "D", "E", "F", "G", "H", "I", "J", "K", "L", "M", "N", "O", "P",
      "Q", "R", "S", "T", "U", "V", "W", "X", "Y", "Z", "a", "b", "c", "d", "e", "f",
      "g", "h", "i", "j", "k", "l", "m", "n", "o", "p", "q", "r", "s", "t", "u", "v",
      "w", "x", "y", "z", "0", "1", "2", "3", "4", "5", "6", "7", "8", "9", "+", "/">>

\* btoa(String.fromCharCode(...bytes)): base64 with '=' padding
RECURSIVE btoa(_)
btoa(bytes) ==
    LET B == Base64Digits
        n == Len(bytes)
    IN  IF n = 0 THEN << >>
        ELSE IF n = 1
        THEN <<B[(bytes[1] \div 4) + 1], B[((bytes[1] % 4) * 16) + 1], "=", "=">>
        ELSE IF n = 2
        THEN <<B[(bytes[1] \div 4) + 1],
               B[((bytes[1] % 4) * 16) + (bytes[2] \div 16) + 1],
               B[((bytes[2] % 16) * 4) + 1], "=">>
        ELSE <<B[(bytes[1] \div 4) + 1],
               B[((bytes[1] % 4) * 16) + (bytes[2] \div 16) + 1],
               B[((bytes[2] % 16) * 4) + (bytes[3] \div 64) + 1],
               B[(bytes[3] % 64) + 1]>> \o btoa(SubSeq(bytes, 4, n))

\* String.prototype.replace with a global one-character pattern
replace(str, pattern, replacement) ==
    [i \in 1..Len(str) |-> IF str[i] = pattern THEN replacement ELSE str[i]]
remove(str, pattern) == SelectSeq(str, LAMBDA c : c # pattern)

\* generatePKCE() when getRandomValues filled the array like this.
generatePKCE(array) ==
    LET codeVerifier == toHex(array)
        hash == digest(encode(codeVerifier))
    IN  [codeVerifier |-> codeVerifier,
         codeChallenge |-> remove(replace(replace(btoa(hash), "+", "-"), "/", "_"),
                                  "=")]

\* config.config of the oauth2 descriptors of config/auth.json; Null is a
\* field the file leaves out.
ProviderSettings ==
    [id \in {"google", "github", "apple"} |->
        [clientId |-> id \o "-client-id",
         authUrl |-> "https://" \o id \o ".example/authorize",
         tokenUrl |-> "https://" \o id \o ".example/token",
         scope |-> IF id = "github" THEN "read:user" ELSE "openid email",
         redirectUri |-> IF id = "google" THEN Null
                         ELSE Some("https://site.example/auth/" \o id \o "/callback"),
         responseMode |-> IF id = "apple" THEN Some("form_post") ELSE Null]]

\* constructor: this.callbackUrl = window.location.origin + '/auth/callback'
callbackUrl == "https://site.example/auth/callback"

\* registerProvider(name, config): the entry of this.providers
registerProvider(name, settings) ==
    [name |-> name,
     clientId |-> settings.clientId,
     authUrl |-> settings.authUrl,
     tokenUrl |-> settings.tokenUrl,
     scope |-> settings.scope,
     redirectUri |-> IF settings.redirectUri # Null THEN settings.redirectUri[1]
                     ELSE callbackUrl,
     responseMode |-> settings.responseMode]

\* A buildAuthUrl that appends response_mode for every provider.
buildAuthUrl_AlwaysResponseMode(provider, state, codeChallenge) ==
    [base |-> provider.authUrl,
     params |-> << <<"client_id", provider.clientId>>,
                   <<"redirect_uri", provider.redirectUri>>,
                   <<"response_type", "code">>,
                   <<"scope", provider.scope>>,
                   <<"state", state>>,
                   <<"code_challenge", codeChallenge>>,
                   <<"code_challenge_method", "S256">>,
                   <<"response_mode", "query">> >>]

\* buildAuthUrl(provider, state, codeChallenge): the address and the query
\* parameters in the order URLSearchParams holds them.
buildAuthUrl(provider, state, codeChallenge) ==
    [base |-> provider.authUrl,
     params |-> << <<"client_id", provider.clientId>>,
                   <<"redirect_uri", provider.redirectUri>>,
                   <<"response_type", "code">>,
                   <<"scope", provider.scope>>,
                   <<"state", state>>,
                   <<"code_challenge", codeChallenge>>,
                   <<"code_challenge_method", "S256">> >>
                \o (IF provider.responseMode # Null
                    THEN << <<"response_mode", provider.responseMode[1]>> >>
                    ELSE << >>)]

\* OAuth2Auth.authenticate(providerName), awaited, when getRandomValues fills
\* the array of generateState with stateArray and that of generatePKCE with
\* pkceArray.
Authorize(providerName, stateArray, pkceArray) ==
    LET state == generateState(stateArray)
        pkce == generatePKCE(pkceArray)
    IN  /\ IF providerName \notin providers
           THEN /\ last' = [Obs EXCEPT !.op = "authorize", !.outcome = "threw",
                                       !.method = providerName,
                                       !.error = "Provider not found"]
                /\ UNCHANGED oauthVars
           ELSE LET provider == registerProvider(providerName,
                                                 ProviderSettings[providerName])
                IN  /\ currentProvider' = Some(providerName)
                    /\ oauthState' = setItem(oauthState, state)
                    /\ oauthVerifier' = setItem(oauthVerifier, pkce.codeVerifier)
                    /\ oauthProvider' = setItem(oauthProvider, providerName)
                    /\ redirect' = Some(buildAuthUrl(provider, state,
                                                     pkce.codeChallenge))
                    /\ flows' = flows
                    /\ last' = [Obs EXCEPT
                                  !.op = "authorize", !.outcome = "redirected",
                                  !.method = providerName, !.writes = 3,
                                  !.found = Some([state |-> state,
                                                  codeChallenge |-> pkce.codeChallenge])]
        /\ UNCHANGED <<config, loader, now, rateLimiter, session, inflight,
                       supported, credentials, calls, failed, window, superseded,
                       latest>>

(* ------------------------------ ConfigLoader ---------------------------- *)
\* The configuration files the pages load.
ConfigNames == {"site", "auth"}

\* What the server answers for a file: a document that passes validate, a
\* document that does not, or a status other than 2xx.  rev tells one
\* published content of the file from the next.
Documents == [rev : 1..MaxRevisions, kind : {"valid", "invalid", "missing"}]

\* new ConfigLoader() on a site whose files are all in place.
\*   cache    this.cache: name -> the cached document, if any
\*   pending  the load calls waiting for fetch
\*   fetches  how many requests were sent
\*   files    what the server holds
\*   loaded   per name, the document of the latest load that succeeded since
\*            reload(name) or clearCache() was last called
NewLoader ==
    [cache |-> [n \in ConfigNames |-> Null], pending |-> << >>, fetches |-> 0,
     files |-> [n \in ConfigNames |-> [rev |-> 1, kind |-> "valid"]],
     loaded |-> [n \in ConfigNames |-> Null]]

\* A reload that leaves the cache as it is.
reload_KeepsCache(cache, configName) == cache

\* reload line 76: this.cache.delete(configName)
reload(cache, configName) == [cache EXCEPT ![configName] = Null]

\* clearCache line 84: this.cache.clear()
clearCache(cache) == [n \in DOMAIN cache |-> Null]

\* The synchronous part of load(configName) or reload(configName): reload
\* deletes the cache entry; a cached document is returned at once, otherwise
\* the request is sent and the call waits for the response.
LoadBegin(op, configName) ==
    LET cache == IF op = "reload" THEN reload(loader.cache, configName)
                 ELSE loader.cache
        loaded == IF op = "reload" THEN [loader.loaded EXCEPT ![configName] = Null]
                  ELSE loader.loaded
    IN  /\ IF cache[configName] # Null
           THEN /\ loader' = [loader EXCEPT !.cache = cache, !.loaded = loaded]
                /\ last' = [Obs EXCEPT !.op = op, !.outcome = "returned",
                                       !.name = configName,
                                       !.found = cache[configName]]
           ELSE /\ loader.fetches < MaxFetches
                /\ loader' = [loader EXCEPT
                                 !.cache = cache, !.loaded = loaded,
                                 !.fetches = @ + 1,
                                 !.pending = Append(@, [op |-> op,
                                                        name |-> configName])]
                /\ last' = [Obs EXCEPT !.op = op \o "Begin", !.name = configName,
                                       !.fetched = 1]
        /\ UNCHANGED <<config, now, rateLimiter, session, inflight, supported,
                       credentials, oauthVars, calls, failed, window, superseded,
                       latest>>

\* The response of a pending load arrives: load lines 34-44.
LoadEnd(i) ==
    LET call == loader.pending[i]
        doc == loader.files[call.name]
        rest == SubSeq(loader.pending, 1, i - 1)
                \o SubSeq(loader.pending, i + 1, Len(loader.pending))
    IN  /\ IF doc.kind = "valid"
           THEN /\ loader' = [loader EXCEPT !.pending = rest,
                                            !.cache[call.name] = Some(doc),
                                            !.loaded[call.name] = Some(doc)]
                /\ last' = [Obs EXCEPT !.op = call.op, !.outcome = "returned",
                                       !.name = call.name, !.found = Some(doc),
                                       !.fetched = 1]
           ELSE /\ loader' = [loader EXCEPT !.pending = rest]
                /\ last' = [Obs EXCEPT !.op = call.op, !.outcome = "threw",
                                       !.name = call.name, !.error = doc.kind,
                                       !.fetched = 1]
        /\ UNCHANGED <<config, now, rateLimiter, session, inflight, supported,
                       credentials, oauthVars, calls, failed, window, superseded,
                       latest>>

\* ConfigLoader.clearCache()
ClearCache ==
    /\ loader' = [loader EXCEPT !.cache = clearCache(@),
                                !.loaded = [n \in ConfigNames |-> Null]]
    /\ last' = [Obs EXCEPT !.op = "clearCache", !.outcome = "returned"]
    /\ UNCHANGED <<config, now, rateLimiter, session, inflight, supported,
                   credentials, oauthVars, calls, failed, window, superseded,
                   latest>>

\* The site is deployed with another content of one configuration file.
Publish(configName, doc) ==
    /\ doc.rev > loader.files[configName].rev
    /\ loader' = [loader EXCEPT !.files[configName] = doc]
    /\ last' = [Obs EXCEPT !.op = "publish", !.name = configName]
    /\ UNCHANGED <<config, now, rateLimiter, session, inflight, supported,
                   credentials, oauthVars, calls, failed, window, superseded,
                   latest>>

(* ------------------------------ specification --------------------------- *)
\* The state a page load leaves once AuthManager.init returned on a browser
\* with empty session and OAuth2 storage.
Fresh ==
    /\ now = 0
    /\ rateLimiter = EmptyMap
    /\ session = Null
    /\ inflight = << >>
    /\ currentProvider = Null
    /\ oauthState = Null
    /\ oauthVerifier = Null
    /\ oauthProvider = Null
    /\ flows = 0
    /\ redirect = Null
    /\ calls = 0
    /\ failed = [m \in Methods |-> 0]
    /\ window = [m \in Methods |-> NoWindow]
    /\ superseded = {}
    /\ latest = Null
    /\ last = Obs
    /\ loader = NewLoader

Init ==
    /\ \E d \in Deployments, rl \in RateLimitConfigs :
          /\ config = Config(d, rl)
          /\ supported = d.supported
          /\ credentials = d.credentials
    /\ Fresh

\* The coordinator: the UI awaits each authenticate call before it starts the
\* next one, and the clock advances at any moment.
Next ==
    \/ Tick
    \/ \E m \in Methods : \E c \in CredentialInputs(m) :
          inflight = << >> /\ AuthBegin(m, c)
    \/ \E i \in 1..Len(inflight) : AuthEnd(i)

Spec == Init /\ [][Next]_vars

\* The OAuth2 flow: authorizations started through the coordinator, each awaited,
\* and callback pages loaded with any query parameters.
NextOAuth ==
    \/ \E m \in OAuthProviderIds :
          inflight = << >> /\ AuthBegin(m, NoCredentials)
    \/ \E i \in 1..Len(inflight) : AuthEnd(i)
    \/ \E params \in CallbackParams :
          inflight = << >> /\ HandleCallback(params)

SpecOAuth == Init /\ [][NextOAuth]_vars

\* The values of providers.local.config.tokenExpiry: set, missing (0), negative.
TokenExpiryConfigs == {CfgTokenExpiry, 0, 0 - CfgTokenExpiry}

\* The rate-limit section of the configurations of the session store's runs.
SessionRateLimit ==
    [present |-> TRUE, enabled |-> TRUE, maxAttempts |-> CfgMaxAttempts,
     windowMs |-> CfgWindowMs]

InitSession ==
    /\ \E d \in Deployments, te \in TokenExpiryConfigs :
          /\ config = [Config(d, SessionRateLimit) EXCEPT !.tokenExpiry = te]
          /\ supported = d.supported
          /\ credentials = d.credentials
    /\ Fresh

\* The session store: logins with the login form, each awaited, session reads
\* and logouts at any moment between them, and the clock.
NextSession ==
    \/ Tick
    \/ \E c \in CredentialInputs("local") :
          inflight = << >> /\ AuthBegin("local", c)
    \/ \E i \in 1..Len(inflight) : AuthEnd(i)
    \/ inflight = << >> /\ CheckSession
    \/ inflight = << >> /\ GetSession
    \/ inflight = << >> /\ Logout
    \/ \E page \in PrivatePages : inflight = << >> /\ LoadPrivatePage(page)

SpecSession == InitSession /\ [][NextSession]_vars

\* Every configuration of the four provider ids (each descriptor missing,
\* disabled or enabled) on a browser with or without WebAuthn support.
ConfigDeployments ==
    { [providers |-> Providers(present, enabled), supported |-> sup,
       credentials |-> OneStoredCredential] :
         present \in SUBSET Methods, enabled \in SUBSET Methods, sup \in BOOLEAN }

\* A configuration without the security.rateLimit section.
NoRateLimit ==
    [present |-> FALSE, enabled |-> FALSE, maxAttempts |-> 0, windowMs |-> 0]

InitConfig ==
    /\ \E d \in ConfigDeployments :
          /\ config = Config(d, NoRateLimit)
          /\ supported = d.supported
          /\ credentials = d.credentials
    /\ Fresh

\* The login page under any configuration: it lists the methods and providers
\* and starts authenticate calls, each awaited, with any method name.
NextConfig ==
    \/ inflight = << >> /\ GetAvailableMethods
    \/ inflight = << >> /\ GetProviders
    \/ \E m \in Methods : \E c \in CredentialInputs(m) :
          inflight = << >> /\ AuthBegin(m, c)
    \/ \E i \in 1..Len(inflight) : AuthEnd(i)

SpecConfig == InitConfig /\ [][NextConfig]_vars

\* The OAuth2 flow across page loads: the redirect to the provider and the
\* return to the callback page each load a page.
NextReload ==
    \/ NextOAuth
    \/ PageLoad

SpecReload == Init /\ [][NextReload]_vars

\* Browsers with WebAuthn support, with and without a registered credential.
WebAuthnDeployments ==
    { [providers |-> Providers(Methods, {"local", "webauthn", "google"}),
       supported |-> TRUE, credentials |-> creds] :
         creds \in {NoStoredCredentials, OneStoredCredential} }

InitWebAuthn ==
    /\ \E d \in WebAuthnDeployments :
          /\ config = Config(d, NoRateLimit)
          /\ supported = d.supported
          /\ credentials = d.credentials
    /\ Fresh

\* The passkey buttons: logins and registrations started without waiting for
\* the ones before, their prompts answered in any order, and the clock.
NextWebAuthn ==
    \/ Tick
    \/ calls < MaxCeremonies /\ AuthBegin("webauthn", NoCredentials)
    \/ \E i \in 1..Len(inflight) : AuthEnd(i)
    \/ \E username \in RegistrationNames :
          calls < MaxCeremonies /\ RegisterBegin(username)
    \/ \E i \in 1..Len(inflight) : RegisterEnd(i)
    \/ ClearCredentials

SpecWebAuthn == InitWebAuthn /\ [][NextWebAuthn]_vars

InitModules ==
    /\ \E d \in WebAuthnDeployments :
          /\ config = Config(d, SessionRateLimit)
          /\ supported = d.supported
          /\ credentials = d.credentials
    /\ Fresh

\* The WebAuthn module and the OAuth2 module side by side: passkey logins and
\* registrations, OAuth2 authorizations and callbacks, each call awaited.
NextModules ==
    \/ \E m \in {"webauthn", "google"} :
          inflight = << >> /\ AuthBegin(m, NoCredentials)
    \/ \E i \in 1..Len(inflight) : AuthEnd(i)
    \/ \E username \in RegistrationNames :
          inflight = << >> /\ RegisterBegin(username)
    \/ \E i \in 1..Len(inflight) : RegisterEnd(i)
    \/ inflight = << >> /\ ClearCredentials
    \/ \E params \in CallbackParams :
          inflight = << >> /\ HandleCallback(params)

SpecModules == InitModules /\ [][NextModules]_vars

\* The configuration loader of a page: load, reload and clearCache called at
\* any moment, responses arriving in any order, files changing on the server.
NextLoader ==
    \/ \E op \in {"load", "reload"}, n \in ConfigNames : LoadBegin(op, n)
    \/ \E i \in 1..Len(loader.pending) : LoadEnd(i)
    \/ ClearCache
    \/ \E n \in ConfigNames, doc \in Documents : Publish(n, doc)

SpecLoader == InitModules /\ [][NextLoader]_vars

\* A configuration with google and apple enabled and github disabled.
InitPKCE ==
    /\ config = Config([providers |->
                           [id \in DOMAIN ProviderSettings |->
                               Descriptor("oauth2", id # "github")]],
                       NoRateLimit)
    /\ supported = FALSE
    /\ credentials = NoStoredCredentials
    /\ Fresh

\* An authorization with the values it generates: the login page calls
\* authenticate until a call assigns window.location.href and the browser
\* leaves the page.
NextPKCE ==
    \E providerName \in DOMAIN ProviderSettings :
       \E stateArray \in RandomArrays, pkceArray \in RandomArrays :
          redirect = Null /\ Authorize(providerName, stateArray, pkceArray)

SpecPKCE == InitPKCE /\ [][NextPKCE]_vars

\* The session store with an item that is not JSON: logins with the login
\* form, each awaited, validity checks and reads, the item overwritten with
\* text that does not parse, and the clock.
NextCorrupt ==
    \/ Tick
    \/ \E c \in CredentialInputs("local") :
          inflight = << >> /\ AuthBegin("local", c)
    \/ \E i \in 1..Len(inflight) : AuthEnd(i)
    \/ inflight = << >> /\ CorruptSession
    \/ inflight = << >> /\ CheckSession
    \/ inflight = << >> /\ GetSession

SpecCorrupt == InitSession /\ [][NextCorrupt]_vars

\* What the login form may pass: nothing, or a username and a password, each
\* empty, the configured one or another one.
LocalInputs ==
    {NoCredentials}
    \cup {Creds(u, p) : u \in {"", "admin", "guest"}, p \in {"", "secret", "wrong"}}

\* Configurations with and without demo.credentials.
InitLocal ==
    /\ \E d \in Deployments, demo \in {Null, Some([username |-> "admin",
                                                      password |-> "secret"])} :
          /\ config = [Config(d, SessionRateLimit) EXCEPT !.demo = demo]
          /\ supported = d.supported
          /\ credentials = d.credentials
    /\ Fresh

\* The login form: local logins with any input, each awaited, and the clock.
NextLocal ==
    \/ Tick
    \/ \E c \in LocalInputs : inflight = << >> /\ AuthBegin("local", c)
    \/ \E i \in 1..Len(inflight) : AuthEnd(i)

SpecLocal == InitLocal /\ [][NextLocal]_vars

\* The login buttons pressed without waiting: passkey logins and OAuth2
\* authorizations started while earlier calls are suspended at their await,
\* resumed in any order, and the clock.
NextReentrant ==
    \/ Tick
    \/ \E m \in {"webauthn", "google"} :
          calls < MaxCeremonies /\ AuthBegin(m, NoCredentials)
    \/ \E i \in 1..Len(inflight) : AuthEnd(i)

SpecReentrant == InitModules /\ [][NextReentrant]_vars

(* ------------------------------ properties ------------------------------ *)
\* The step is the start of an authenticate call (admitted or rejected).
IsCallStart == calls' = calls + 1
\* The step is the rejection of an authenticate call by the rate limiter.
IsRejection == last'.op = "authenticate" /\ last'.error = TooManyAttempts
\* The step is the end of an authenticate call whose strategy threw.
IsFailure == last'.op = "authenticate" /\ last'.outcome = "threw" /\ last'.ran
\* The count of a method's entry, 0 when it has none.
CountOf(rl, method) == IF MapHas(rl, method) THEN rl[method].count ELSE 0

\* C1: with rate limiting enabled, a call of a method that starts when
\* maxAttempts consecutive failures of that method fall in one window, and that
\* window opened no more than windowMs ago, is rejected as rate-limited and its
\* strategy is not run: no admitted call ("begin") is found in that situation.
C1_LockoutAfterMaxFailures ==
    (RateLimitEnabled /\ last.op = "begin")
    => ~( /\ window[last.method].n = maxAttempts
          /\ now - window[last.method].opened <= windowMs )

\* C2: with rate limiting enabled, the end of an authenticate call whose strategy
\* threw leaves the method's count one higher than it was (0 for no entry), and
\* the error thrown on is one the suspended strategy can raise, never the
\* rate-limit rejection.
C2_FailureCountsOnce ==
    [][ (IsFailure /\ RateLimitEnabled) =>
          /\ MapHas(rateLimiter', last'.method)
          /\ rateLimiter'[last'.method].count
               = CountOf(rateLimiter, last'.method) + 1
          /\ \A k \in (DOMAIN rateLimiter') \ {last'.method} :
                MapHas(rateLimiter, k) /\ rateLimiter'[k] = rateLimiter[k]
          /\ last'.error # TooManyAttempts
          /\ \E res \in StrategyResults(inflight[1]) :
                res.threw /\ res.error = last'.error ]_vars

C2_Witness ==
    /\ RateLimitEnabled
    /\ last.op = "authenticate" /\ last.outcome = "threw" /\ last.ran
    /\ last.error = "Provider not found"
    /\ MapHas(rateLimiter, "github") /\ rateLimiter["github"].count = 2

\* C3: a call rejected by the rate limiter leaves the rate-limiter map (count and
\* timestamp of every entry) and the session item as they were, and suspends
\* nothing.
C3_RejectionNotCounted ==
    [][ IsRejection =>
          /\ rateLimiter' = rateLimiter
          /\ session' = session
          /\ inflight' = inflight
          /\ ~last'.ran ]_vars

C3_Witness ==
    /\ last.op = "authenticate" /\ last.error = TooManyAttempts
    /\ last.method = "local"
    /\ rateLimiter["local"].count = maxAttempts
    /\ session # Null

\* C4: after a successful authenticate call the session item holds the user of
\* the strategy's result, issued now, and the method has no rate-limit entry;
\* and at every moment a method's count is at most the number of its calls that
\* failed since its last call that returned, so a lockout after a success takes
\* maxAttempts new failures.
C4_SuccessCreatesSessionAndResets ==
    /\ (last.op = "authenticate" /\ last.outcome = "success") =>
          /\ session # Null
          /\ last.user # Null
          /\ session[1].user = last.user[1]
          /\ session[1].loginTime = now
          /\ ~MapHas(rateLimiter, last.method)
    /\ \A m \in Methods : CountOf(rateLimiter, m) <= failed[m]

C4_Witness ==
    /\ RateLimitEnabled
    /\ last.op = "authenticate" /\ last.outcome = "success"
    /\ last.method = "local"
    /\ session # Null /\ session[1].user = "admin"
    /\ calls >= 2
    /\ MapHas(rateLimiter, "webauthn")

\* C5: the end of a successful authenticate call writes the session item once,
\* and it is the item createSession builds for the result's user; every other
\* step of an authenticate call (its start, its rejection, its end with a throw
\* or with success = false) writes it zero times and leaves it as it was.
C5_OneSessionWritePerSuccess ==
    [][ /\ (last'.op = "authenticate" /\ last'.outcome = "success") =>
              /\ last'.writes = 1
              /\ session' = createSession(last'.user[1], now)
        /\ (last'.op = "authenticate" /\ last'.outcome # "success") =>
              /\ last'.writes = 0
              /\ session' = session
        /\ last'.op = "begin" =>
              /\ last'.writes = 0
              /\ session' = session ]_vars

C5_Witness ==
    /\ last.op = "authenticate" /\ last.outcome = "threw"
    /\ session # Null /\ session[1].loginTime < now

\* C6: a call that starts when more than windowMs has passed since the timestamp
\* of its method's entry is admitted and the entry is removed; and a call that
\* fails while its method has no entry leaves the entry with count 1 and the
\* current time as timestamp.
C6_ExpiredWindowDiscarded ==
    [][ /\ ( /\ IsCallStart /\ RateLimitEnabled
             /\ MapHas(rateLimiter, last'.method)
             /\ now - rateLimiter[last'.method].timestamp > windowMs )
           => /\ last'.op = "begin"
              /\ ~MapHas(rateLimiter', last'.method)
        /\ ( /\ IsFailure /\ RateLimitEnabled
             /\ ~MapHas(rateLimiter, last'.method) )
           => rateLimiter'[last'.method] = [count |-> 1, timestamp |-> now] ]_vars

\* A call failed after the window of a full entry elapsed: the entry is new.
C6_Witness ==
    /\ RateLimitEnabled
    /\ last.op = "authenticate" /\ last.outcome = "threw" /\ last.method = "local"
    /\ failed["local"] = maxAttempts
    /\ rateLimiter["local"] = [count |-> 1, timestamp |-> now]

\* C7: a call that fails when more than windowMs has passed since the timestamp
\* of its method's entry leaves the entry with count 1 and the current time as
\* timestamp.
C7_StaleEntryRestarted ==
    [][ ( /\ IsFailure /\ RateLimitEnabled
          /\ MapHas(rateLimiter, last'.method)
          /\ now - rateLimiter[last'.method].timestamp > windowMs )
        => rateLimiter'[last'.method] = [count |-> 1, timestamp |-> now] ]_vars

\* C8: while the rate-limit policy is disabled or absent, the rate-limiter map
\* is empty, checkRateLimit answers true for every method, and no call is
\* rejected as rate-limited.
C8_DisabledPolicyIsInert ==
    ~RateLimitEnabled =>
        /\ rateLimiter = EmptyMap
        /\ \A m \in Methods : checkRateLimit(rateLimiter, m, now).allowed
        /\ last.error # TooManyAttempts

\* A call is admitted although the latest maxAttempts calls of its method failed.
C8_Witness ==
    /\ ~RateLimitEnabled /\ config.rateLimit.present
    /\ last.op = "begin" /\ last.method = "local"
    /\ failed["local"] = maxAttempts

\* The callback passed the state comparison with a state that was pending.
PassedStateCheck(obs) ==
    /\ obs.op = "handleCallback"
    /\ obs.params.error = Null
    /\ obs.params.state # Null
    /\ obs.error # CsrfMismatch

\* C9: a callback without error parameter whose state parameter differs from the
\* stored state, or that arrives while no state is stored, is rejected with the
\* CSRF-mismatch error and invokes neither the token exchange nor the user-info
\* fetch.
C9_MismatchIsCsrfError ==
    [][ ( /\ last'.op = "handleCallback"
          /\ last'.params.error = Null
          /\ (last'.params.state # oauthState \/ oauthState = Null) )
        => /\ last'.outcome = "threw"
           /\ last'.error = CsrfMismatch
           /\ last'.exchanges = 0
           /\ last'.userInfos = 0 ]_vars

\* C10: a callback that matches the pending state discards the stored state,
\* code verifier and provider id whatever happens after the comparison, and the
\* next callback with the same state value is rejected with the CSRF-mismatch
\* error.
C10_MatchedCeremonyIsSingleUse ==
    [][ /\ ( /\ last'.op = "handleCallback"
             /\ last'.params.error = Null
             /\ oauthState # Null
             /\ last'.params.state = oauthState )
           => /\ oauthState' = Null
              /\ oauthVerifier' = Null
              /\ oauthProvider' = Null
        /\ ( /\ PassedStateCheck(last)
             /\ last'.op = "handleCallback"
             /\ last'.params.error = Null
             /\ last'.params.state = last.params.state )
           => last'.error = CsrfMismatch ]_vars

\* C11: a callback that carries an error parameter is rejected with the provider
\* error whatever its state parameter and whatever is stored (a wrong or missing
\* state included): no token exchange and no user-info fetch is invoked and the
\* stored state, code verifier and provider id stay as they were.
C11_ProviderErrorFirst ==
    [][ (last'.op = "handleCallback" /\ last'.params.error # Null)
        => /\ last'.outcome = "threw"
           /\ last'.error = "OAuth2 error"
           /\ last'.exchanges = 0
           /\ last'.userInfos = 0
           /\ UNCHANGED <<oauthState, oauthVerifier, oauthProvider>> ]_vars

\* A provider error reported with a state other than the pending one.
C11_Witness ==
    /\ last.op = "handleCallback" /\ last.params.error # Null
    /\ oauthState # Null /\ oauthProvider # Null
    /\ last.params.state # oauthState
    /\ last.error = "OAuth2 error"

\* The step is the return of an authorization that ran to completion (state,
\* code verifier and provider stored, redirect assigned).
IsAuthorizationDone ==
    /\ last'.op = "authenticate" /\ last'.outcome = "returned"
    /\ redirect' # Null /\ redirect'[1].state = flows'

\* C12: an authorization that runs to completion leaves exactly its own state,
\* code verifier and provider stored, whatever was pending before; and while
\* the latest authorization is such a one and has replaced earlier completed
\* ones, a callback carrying the state of a replaced one is rejected with the
\* CSRF-mismatch error, a callback carrying the latest state is accepted, and
\* no callback with another state is accepted.
C12_SecondAuthorizationSupersedes ==
    [][ /\ IsAuthorizationDone
           => /\ oauthState' = Some(flows')
              /\ oauthVerifier' = Some(flows')
              /\ oauthProvider' = Some(last'.method)
        /\ ( /\ last'.op = "handleCallback" /\ last'.params.error = Null
             /\ superseded # {}
             /\ oauthState = Some(flows) /\ oauthVerifier = Some(flows) )
           => /\ (last'.params.state # Null /\ last'.params.state[1] \in superseded)
                    => (last'.outcome = "threw" /\ last'.error = CsrfMismatch)
              /\ last'.params.state = Some(flows) => last'.outcome = "success"
              /\ last'.outcome = "success" => last'.params.state = Some(flows) ]_vars

\* The first authorization's state came back after the second one completed.
C12_Witness ==
    /\ last.op = "handleCallback" /\ last.params.error = Null
    /\ last.params.state # Null /\ last.params.state[1] \in superseded
    /\ last.error = CsrfMismatch
    /\ oauthState = Some(flows) /\ oauthVerifier = Some(flows)
    /\ oauthState # last.params.state

\* The stored session's expiry time has been reached (expiresAt <= now).
IsExpired(sess, t) == sess # Null /\ sess[1].expiry <= t

\* C13: getSession returns null when no session is stored and when the stored
\* session's expiry time has passed, and in the latter case it removes the
\* stored item.
C13_ReadHidesExpiredSession ==
    [][ last'.op = "getSession"
        => /\ session = Null => last'.found = Null
           /\ IsExpired(session, now)
                 => (last'.found = Null /\ session' = Null) ]_vars

\* C14: checkSession returns false and removes the stored session when its
\* expiry is at or before the current instant, and returns true and leaves the
\* item as it is when its expiry is after the current instant.
C14_ValidityBoundary ==
    [][ (last'.op = "checkSession" /\ session # Null)
        => /\ session[1].expiry <= now
                 => (~last'.valid /\ session' = Null)
           /\ session[1].expiry > now
                 => (last'.valid /\ session' = session) ]_vars

\* C15: logout returns without error with or without a stored session and
\* leaves no session; it changes no rate-limit entry; and a logout that follows
\* a logout leaves the storage, the rate limiter and the window location as the
\* first one left them.
C15_LogoutIdempotent ==
    [][ last'.op = "logout"
        => /\ last'.outcome = "returned"
           /\ session' = Null
           /\ rateLimiter' = rateLimiter
           /\ last.op = "logout"
                 => UNCHANGED <<session, rateLimiter, redirect, oauthState,
                                oauthVerifier, oauthProvider, credentials>> ]_vars

\* A logout with no session stored, while a method has a rate-limit entry.
C15_Witness ==
    /\ last.op = "logout" /\ last.found = Null
    /\ session = Null /\ redirect = SitePage("/index.html")
    /\ MapHas(rateLimiter, "local")

\* C16: the session key holds at most one record, and a stored record is that
\* of the most recent successful authenticate call (its user, issued at its
\* time): a success while a session is stored replaces it.
C16_SingleSessionLatestWins ==
    /\ Len(session) <= 1
    /\ session # Null
          => /\ latest # Null
             /\ session[1].user = latest[1].user
             /\ session[1].loginTime = latest[1].time
    /\ (last.op = "authenticate" /\ last.outcome = "success")
          => session = createSession(last.user[1], now)

\* A passkey login replaced the session of a password login.
C16_Witness ==
    /\ last.op = "authenticate" /\ last.outcome = "success"
    /\ last.method = "webauthn"
    /\ last.found # Null /\ last.found[1].user = "admin"
    /\ session # Null /\ session[1].user = "unknown"

\* C17: every stored session has an expiry after its issue time, whatever
\* session lifetime the configuration gives.
C17_ExpiryAfterIssue ==
    session # Null => session[1].expiry > session[1].loginTime

\* The messages of the errors that report a method as not available.
MethodUnavailableErrors ==
    {"WebAuthn is not available", "OAuth2 is not available", "Provider not found"}

\* C18: an authenticate call whose method has no descriptor in the
\* configuration ends with a method-unavailable error, and no step of it
\* changes the session item, stores an OAuth2 state or assigns a redirect.
C18_UnconfiguredMethodFails ==
    [][ ( /\ last'.op \in {"begin", "authenticate"}
          /\ last'.method \notin DOMAIN config.providers )
        => /\ session' = session
           /\ UNCHANGED oauthVars
           /\ last'.op = "authenticate"
                 => /\ last'.outcome = "threw"
                    /\ last'.error \in MethodUnavailableErrors ]_vars

\* C19: getAvailableMethods returns without error exactly the ids whose
\* descriptor is in the configuration and enabled, webauthn only if the browser
\* supports it as well.
C19_AvailableMethodsExact ==
    last.op = "getAvailableMethods"
    => /\ last.outcome = "returned"
       /\ \A id \in Methods :
             id \in last.listed
             <=> /\ id \in DOMAIN config.providers
                 /\ config.providers[id].enabled
                 /\ config.providers[id].type = "webauthn" => supported
       /\ last.listed \subseteq Methods

\* WebAuthn is enabled on a browser without support, next to a disabled provider.
C19_Witness ==
    /\ last.op = "getAvailableMethods"
    /\ IsEnabled("webauthn") /\ ~supported
    /\ "github" \in DOMAIN config.providers /\ ~IsEnabled("github")
    /\ last.listed = {"local", "google"}

\* C20: getProviders returns exactly the ids of the descriptors of type oauth2
\* that are enabled: every id listed is such a descriptor and none is missing.
C20_ProvidersExact ==
    last.op = "getProviders"
    => /\ \A id \in last.listed :
             /\ id \in DOMAIN config.providers
             /\ config.providers[id].type = "oauth2"
             /\ config.providers[id].enabled
       /\ \A id \in DOMAIN config.providers :
             (config.providers[id].type = "oauth2" /\ config.providers[id].enabled)
             => id \in last.listed

\* One oauth2 provider is listed; a disabled one and enabled other kinds are not.
C20_Witness ==
    /\ last.op = "getProviders"
    /\ last.listed = {"google"}
    /\ "github" \in DOMAIN config.providers /\ ~IsEnabled("github")
    /\ IsEnabled("local") /\ IsEnabled("webauthn")

\* C30: an entry leaves the rate-limiter map only at the end of a successful
\* authenticate call of its method, or at the start of a call of its method
\* made more than windowMs after the entry's timestamp; a call that returns
\* without success (an OAuth2 redirect) leaves the entry as it was.
C30_EntryRemovedOnlyBySuccessOrExpiry ==
    [][ \A m \in Methods :
          (MapHas(rateLimiter, m) /\ ~MapHas(rateLimiter', m))
          => \/ /\ last'.op = "authenticate" /\ last'.method = m
                /\ last'.outcome = "success"
             \/ /\ IsCallStart /\ last'.method = m
                /\ now - rateLimiter[m].timestamp > windowMs ]_vars

\* C27: on a page whose OAuth2Auth object was constructed after the redirect
\* (nothing in memory), a callback that carries the state of the authorization
\* URL the window was sent to, while that state is the stored one, is accepted
\* and resolved to the provider of that URL.
C27_PendingCeremonySurvivesPageLoad ==
    [][ ( /\ last'.op = "handleCallback" /\ last'.params.error = Null
          /\ currentProvider = Null
          /\ redirect # Null /\ redirect[1].url = "authUrl"
          /\ oauthState = Some(redirect[1].state)
          /\ last'.params.state = oauthState )
        => /\ last'.outcome = "success"
           /\ last'.method = redirect[1].provider ]_vars

\* The callback of an authorization for google was accepted after a page load.
C27_Witness ==
    /\ last.op = "handleCallback" /\ last.outcome = "success"
    /\ currentProvider = Null
    /\ redirect # Null /\ last.params.state = Some(redirect[1].state)
    /\ last.method = "google" /\ redirect[1].provider = "google"

\* C21: a WebAuthn login started on a supporting browser while no credential is
\* stored draws no challenge and opens no prompt: the call is already failed
\* with the no-credentials error when it is suspended, and ends with it.
C21_NoCredentialsFailsFast ==
    [][ /\ ( /\ last'.op = "begin" /\ last'.method = "webauthn"
             /\ HasWebAuthn /\ supported /\ Len(credentials) = 0 )
           => /\ last'.challenge = Null
              /\ last'.prompts = 0
              /\ inflight'[Len(inflight')].stage = "settled"
              /\ inflight'[Len(inflight')].result = Threw(NoCredentialsRegistered)
        /\ ( /\ last'.op = "authenticate"
             /\ last'.error = NoCredentialsRegistered )
           => /\ last'.outcome = "threw"
              /\ last'.challenge = Null
              /\ session' = session ]_vars

C21_Witness ==
    /\ last.op = "authenticate" /\ last.method = "webauthn"
    /\ last.outcome = "threw" /\ last.error = NoCredentialsRegistered
    /\ Len(credentials) = 0 /\ supported
    /\ last.challenge = Null

\* The suspended calls that wait in the platform prompt of one kind
\* ("prompt": get-assertion, "create": create-credential).
PendingOfKind(kind) == {j \in 1..Len(inflight) : inflight[j].stage = kind}

\* C22: at most one WebAuthn ceremony of each kind waits for the platform
\* prompt at a time (a second one is refused, not started).
C22_OneCeremonyPerKind ==
    /\ Cardinality(PendingOfKind("prompt")) <= 1
    /\ Cardinality(PendingOfKind("create")) <= 1

\* C23: a WebAuthn ceremony whose result is accepted (a successful assertion
\* or a stored credential) ended within the ceremony's timeout.
C23_ResultAcceptedOnlyBeforeExpiry ==
    ( /\ last.op \in {"authenticate", "register"}
      /\ last.outcome = "success"
      /\ last.challenge # Null )
    => last.age <= ceremonyTimeout

\* The step belongs to the WebAuthn module / to the OAuth2 module.
IsWebAuthnStep ==
    \/ last'.op \in {"registerBegin", "register", "clearCredentials"}
    \/ last'.op \in {"begin", "authenticate"} /\ last'.method = "webauthn"
IsOAuth2Step ==
    \/ last'.op = "handleCallback"
    \/ last'.op \in {"begin", "authenticate"} /\ last'.method \in OAuthProviderIds

\* C26: the operations of the modules that do not pass through
\* AuthManager.authenticate (handleCallback, register, clearCredentials) leave
\* the session item and the rate-limiter map as they were; no step of the
\* OAuth2 module changes the stored WebAuthn credentials, and no step of the
\* WebAuthn module changes the stored OAuth2 state, code verifier or provider.
C26_ModulesKeepToTheirState ==
    [][ /\ last'.op \in {"handleCallback", "registerBegin", "register",
                         "clearCredentials"}
           => (session' = session /\ rateLimiter' = rateLimiter)
        /\ IsOAuth2Step => credentials' = credentials
        /\ IsWebAuthnStep
           => UNCHANGED <<oauthState, oauthVerifier, oauthProvider>> ]_vars

\* A callback was accepted while a session, a credential and a rate-limit
\* entry were stored.
C26_Witness ==
    /\ last.op = "handleCallback" /\ last.outcome = "success"
    /\ session # Null
    /\ Len(credentials) > 0
    /\ MapHas(rateLimiter, "webauthn")

\* C28: when a private page (dashboard, wiki, links) has been loaded without a
\* valid, unexpired session, the browser is sent to the login page and none of
\* the page's private content has been rendered.
C28_PrivateContentOnlyWithSession ==
    (last.op = "loadPrivatePage" /\ ~last.valid)
        => (redirect = SitePage("/public/login.html") /\ ~last.rendered)

\* The step is a call of load (op = "load") or of reload (op = "reload"), not
\* the arrival of a response.
IsLoaderCall(op) ==
    /\ last'.op \in {op, op \o "Begin"}
    /\ Len(loader'.pending) >= Len(loader.pending)

\* C29: a load(name) called after a load of that name succeeded, with no
\* reload(name) and no clearCache() since, returns the document that load
\* cached and sends no request; every reload(name) sends a request, and when
\* it succeeds the cache holds the document it fetched.
C29_CachedUntilReloadOrClear ==
    [][ /\ (IsLoaderCall("load") /\ loader.loaded[last'.name] # Null)
             => /\ last'.op = "load" /\ last'.outcome = "returned"
                /\ last'.found = loader.loaded[last'.name]
                /\ loader'.fetches = loader.fetches
        /\ IsLoaderCall("reload") => loader'.fetches = loader.fetches + 1
        /\ (last'.op = "reload" /\ last'.outcome = "returned")
             => /\ last'.found = Some(loader.files[last'.name])
                /\ loader'.cache[last'.name] = last'.found ]_vars

\* A load answered from the cache, without a request, after the file changed
\* on the server.
C29_Witness ==
    /\ last.op = "load" /\ last.outcome = "returned" /\ last.fetched = 0
    /\ last.found # Some(loader.files[last.name])

\* RFC 7636: the unreserved characters a code verifier is made of.
Unreserved ==
    {Base64Digits[k] : k \in 1..62} \cup {"-", ".", "_", "~"}

\* RFC 4648 section 5: base64url without padding.
Base64UrlDigits ==
    [k \in 1..64 |-> IF k = 63 THEN "-" ELSE IF k = 64 THEN "_" ELSE Base64Digits[k]]
RECURSIVE Bits(_)
Bits(bytes) ==
    IF bytes = << >> THEN << >>
    ELSE [j \in 1..8 |-> (Head(bytes) \div (2 ^ (8 - j))) % 2] \o Bits(Tail(bytes))
SixBits(bits, g) ==
    LET bit(j) == IF j <= Len(bits) THEN bits[j] ELSE 0
    IN  32 * bit(6 * g - 5) + 16 * bit(6 * g - 4) + 8 * bit(6 * g - 3)
        + 4 * bit(6 * g - 2) + 2 * bit(6 * g - 1) + bit(6 * g)
base64url(bytes) ==
    LET bits == Bits(bytes)
    IN  [g \in 1..((Len(bits) + 5) \div 6) |-> Base64UrlDigits[SixBits(bits, g) + 1]]

\* The value of a query parameter of the address, << >> when it is absent or
\* given more than once.
Param(url, key) ==
    LET at == {i \in 1..Len(url.params) : url.params[i][1] = key}
    IN  IF Cardinality(at) = 1 THEN <<url.params[CHOOSE i \in at : TRUE][2]>>
        ELSE << >>
ParamKeys(url) == {url.params[i][1] : i \in 1..Len(url.params)}

\* C24: after an authorization redirected, the code_challenge of the address
\* is base64url(SHA-256(v)) of the code verifier v in localStorage, and v is
\* 43 to 128 characters long, all of them unreserved.
C24_ChallengeMatchesStoredVerifier ==
    (last.op = "authorize" /\ last.outcome = "redirected")
        => LET v == oauthVerifier[1]
           IN  /\ Param(redirect[1], "code_challenge")
                     = <<base64url(digest(encode(v)))>>
               /\ Len(v) >= 43 /\ Len(v) <= 128
               /\ \A i \in 1..Len(v) : v[i] \in Unreserved

\* An authorization whose verifier has a padded byte and whose challenge has
\* both characters that base64url writes differently from base64.
C24_Witness ==
    /\ last.op = "authorize" /\ last.outcome = "redirected"
    /\ oauthVerifier[1][1] = "0"
    /\ \E i, j \in 1..Len(last.found[1].codeChallenge) :
          /\ last.found[1].codeChallenge[i] = "-"
          /\ last.found[1].codeChallenge[j] = "_"

\* C25: the address an authorization redirects to has the parameters
\* client_id, redirect_uri, response_type=code, scope, state, code_challenge
\* and code_challenge_method=S256, each once, with the client id, redirect URI
\* and scope of the provider and the state and challenge this call generated
\* (the state being the one it stored); response_mode is there exactly when
\* the provider configures one, with the configured value.
C25_AuthorizationUrlParameters ==
    (last.op = "authorize" /\ last.outcome = "redirected")
        => LET url == redirect[1]
               settings == ProviderSettings[last.method]
           IN  /\ url.base = settings.authUrl
               /\ Len(url.params) = Cardinality(ParamKeys(url))
               /\ ParamKeys(url)
                    = {"client_id", "redirect_uri", "response_type", "scope",
                       "state", "code_challenge", "code_challenge_method"}
                      \cup (IF settings.responseMode # Null
                            THEN {"response_mode"} ELSE {})
               /\ Param(url, "client_id") = <<settings.clientId>>
               /\ Param(url, "redirect_uri")
                    = (IF settings.redirectUri # Null THEN settings.redirectUri
                       ELSE <<callbackUrl>>)
               /\ Param(url, "response_type") = <<"code">>
               /\ Param(url, "scope") = <<settings.scope>>
               /\ Param(url, "state") = <<last.found[1].state>>
               /\ Param(url, "state") = oauthState
               /\ Param(url, "code_challenge") = <<last.found[1].codeChallenge>>
               /\ Param(url, "code_challenge_method") = <<"S256">>
               /\ Param(url, "response_mode") = settings.responseMode

\* An authorization for a provider that configures response_mode and its own
\* redirect URI.
C25_Witness ==
    /\ last.op = "authorize" /\ last.outcome = "redirected"
    /\ Param(redirect[1], "response_mode") = <<"form_post">>
    /\ Param(redirect[1], "redirect_uri") # <<callbackUrl>>

\* The suspended authenticate calls of a method: each was admitted by
\* checkRateLimit and its strategy is executing.
Executing(method) == {i \in 1..Len(inflight) : inflight[i].method = method}

\* C31: with calls of a method started while earlier ones are suspended, the
\* stored count of the method's entry never exceeds maxAttempts, and neither
\* does that count together with the executions still under way.
C31_ReentrantCallsWithinLimit ==
    \A m \in {"webauthn", "google"} :
        (RateLimitEnabled /\ MapHas(rateLimiter, m))
            => /\ rateLimiter[m].count <= maxAttempts
               /\ rateLimiter[m].count + Cardinality(Executing(m)) <= maxAttempts

\* C32: once no authorization is suspended in generatePKCE, the stored state,
\* the stored code verifier and the stored provider come from one and the same
\* call, and the authorization URL assigned to window.location.href carries
\* that call's provider, state and challenge.
C32_PendingCeremonyFromOneCall ==
    ((\A i \in 1..Len(inflight) : inflight[i].stage # "pkce") /\ oauthState # Null)
        => /\ oauthVerifier = oauthState
           /\ redirect # Null
           /\ redirect = AuthorizationUrl(redirect[1].provider, oauthState[1],
                                          oauthState[1])
           /\ oauthProvider = Some(redirect[1].provider)

\* C33: an authenticate call succeeds, and so creates a session, only for a
\* method that getAvailableMethods lists under the configuration: never for a
\* method whose descriptor is missing or disabled.
C33_SessionOnlyThroughListedMethod ==
    (last.op = "authenticate" /\ last.outcome = "success")
        => last.method \in getAvailableMethods

\* C34: a WebAuthn authentication that succeeded was answered with the
\* assertion of a stored credential, and the session it created is for the
\* username stored with that credential.
C34_WebAuthnSessionOfCredentialOwner ==
    (last.op = "authenticate" /\ last.method = "webauthn"
     /\ last.outcome = "success")
        => \E i \in 1..Len(credentials) :
              /\ credentials[i].id = last.assertion
              /\ session # Null
              /\ session[1].user = credentials[i].username

\* C35: a local authentication that the rate limiter admitted succeeds exactly
\* when a username and a password were supplied, neither is empty, credentials
\* are configured and both equal the configured ones; when it succeeds the
\* stored session is for the supplied username.
C35_LocalAuthenticationExact ==
    (last.op = "authenticate" /\ last.method = "local" /\ last.ran)
        => LET c == last.credentials
           IN  /\ last.outcome \in {"success", "threw"}
               /\ last.outcome = "success"
                    <=> /\ c.present /\ c.username # "" /\ c.password # ""
                        /\ config.demo # Null
                        /\ c.username = config.demo[1].username
                        /\ c.password = config.demo[1].password
               /\ last.outcome = "success"
                    => (session # Null /\ session[1].user = c.username)

\* A login with the configured credentials succeeded, not as the first call of
\* the page.
C35_Witness ==
    /\ last.op = "authenticate" /\ last.method = "local"
    /\ last.outcome = "success"
    /\ session # Null /\ session[1].user = "admin"
    /\ calls > 1

\* C36: while the stored session item cannot be parsed, checkSession returns
\* false and removes the item, and getSession returns null.
C36_UnparseableSessionNeverValid ==
    [][ (session # Null /\ ~Parses(session[1]))
        => /\ last'.op = "checkSession"
                 => (~last'.valid /\ session' = Null)
           /\ last'.op = "getSession" => last'.found = Null ]_vars

\* checkSession found an item that does not parse and removed it.
C36_Witness ==
    /\ last.op = "checkSession" /\ ~last.valid
    /\ last.found = Some(Unparseable)
    /\ session = Null

\* C37: no step of an authenticate call for a provider that is not registered
\* changes the stored state, code verifier or provider, this.currentProvider
\* or window.location.href; the call ends with an error, and every callback is
\* answered after it as it would have been before it.
C37_UnregisteredProviderLeavesCeremony ==
    [][ (last'.op \in {"begin", "authenticate"}
         /\ last'.method \in OAuthProviderIds \ providers)
        => /\ UNCHANGED <<oauthState, oauthVerifier, oauthProvider,
                          currentProvider, redirect>>
           /\ last'.op = "authenticate" => last'.outcome = "threw"
           /\ \A params \in CallbackParams :
                 CallbackRejection(params, oauthState', oauthProvider')
                   = CallbackRejection(params, oauthState, oauthProvider) ]_vars

\* The call for the unregistered provider failed while the ceremony of an
\* earlier authorization was pending.
C37_Witness ==
    /\ last.op = "authenticate" /\ last.method = "github"
    /\ last.outcome = "threw" /\ last.error = "Provider not found"
    /\ oauthState # Null /\ oauthVerifier = oauthState
    /\ oauthProvider = Some("google")
    /\ redirect = AuthorizationUrl("google", oauthState[1], oauthState[1])

\* C38: no step of an authenticate call of one method (admitted, rejected,
\* failed, succeeded, or discarding its expired entry) adds, removes or changes
\* the rate-limit entry of another method, nor the answer checkRateLimit gives
\* for that other method.
C38_EntriesIndependentPerMethod ==
    [][ \A m2 \in Methods :
          (last'.op \in {"begin", "authenticate"} /\ last'.method # m2)
          => /\ MapHas(rateLimiter', m2) <=> MapHas(rateLimiter, m2)
             /\ MapHas(rateLimiter, m2) => rateLimiter'[m2] = rateLimiter[m2]
             /\ checkRateLimit(rateLimiter', m2, now').allowed
                  = checkRateLimit(rateLimiter, m2, now).allowed ]_vars

\* One method is locked out while another method has an entry of its own that
\* still admits calls.
C38_Witness ==
    /\ last.op = "authenticate" /\ last.error = TooManyAttempts
    /\ \E m2 \in Methods \ {last.method} :
          /\ MapHas(rateLimiter, m2)
          /\ checkRateLimit(rateLimiter, m2, now).allowed

====
